---- MODULE Spec2Model ----
(***************************************************************************)
(* Model of detect_and_rename_keys.py: the Krumhansl-Schmuckler scoring    *)
(* loop of detect_key and the batch loop of rename_files_with_keys.        *)
(*                                                                         *)
(* Numbers.  Pitch-class energies are integers (KEY_PROFILES in            *)
(* hundredths), an L1-normalised vector is the pair (numerators, common    *)
(* denominator), and a correlation is kept exactly as n / sqrt(d): real    *)
(* arithmetic, with IEEE rounding abstracted away and not-a-number kept as *)
(* a value of its own that every comparison answers False for.             *)
(* None is the string "None", which is no key label and no mode.           *)
(***************************************************************************)
EXTENDS Integers, Sequences, FiniteSets, TLC

VARIABLES
    KEYS,             \* module global, line 14
    KEY_PROFILES,     \* module global, lines 15-18
    \* ---- one call of detect_key (its locals) ----
    pc,               \* "idle" | "loop" | "format" | "returned"
    audio,            \* the mean chroma of the file being scored (np.mean, line 30)
    chroma_vals,      \* line 33
    mode, i,          \* loop variables, lines 40 and 44
    max_correlation, detected_key, detected_mode,   \* lines 36-38
    key_name,         \* lines 57-62
    memo,             \* an earlier call, remembered: its input and what it selected
    \* ---- rename_files_with_keys ----
    rpc,              \* "start" | "loop" | "done"
    fs,               \* the directory tree: path -> audio content
    wav_files, idx,   \* line 68 and the position of the for loop of line 76
    run,              \* which run of the script this is
    last,             \* what the latest loop iteration did and printed
    fs0,              \* the tree before the first run
    renamed           \* the renames the first run made

vars == <<KEYS, KEY_PROFILES, pc, audio, chroma_vals, mode, i, max_correlation,
          detected_key, detected_mode, key_name, memo,
          rpc, fs, wav_files, idx, run, last, fs0, renamed>>

keyVars == <<pc, audio, chroma_vals, mode, i, max_correlation,
             detected_key, detected_mode, key_name, memo>>
renameVars == <<rpc, fs, wav_files, idx, run, last, fs0, renamed>>

(***************************************************************************)
(* Bounds.                                                                 *)
(***************************************************************************)
MaxNotes == 4     \* notes of a stacked-interval chord given as input
MaxEnergy == 2    \* energy levels of the chord and flat inputs
MaxFiles == 2     \* WAV files in the directory tree before the first run
MaxRuns == 2      \* runs of the script on the same tree

NPitch == 12
None == "None"

(***************************************************************************)
(* Exact arithmetic on naturals beyond the machine word: little-endian     *)
(* sequences of limbs.                                                     *)
(***************************************************************************)
Base == 10 ^ 4

Abs(n) == IF n < 0 THEN -n ELSE n

RECURSIVE BigOfNat(_)
BigOfNat(n) == IF n < Base THEN <<n>> ELSE <<n % Base>> \o BigOfNat(n \div Base)

RECURSIVE Carry(_, _)
Carry(a, c) ==
    IF a = <<>> THEN (IF c = 0 THEN <<>> ELSE BigOfNat(c))
    ELSE LET t == Head(a) + c IN <<t % Base>> \o Carry(Tail(a), t \div Base)

RECURSIVE Trim(_)
Trim(a) == IF Len(a) > 1 /\ a[Len(a)] = 0 THEN Trim(SubSeq(a, 1, Len(a) - 1)) ELSE a

RECURSIVE ConvTerm(_, _, _, _)
ConvTerm(a, b, k, j) ==
    IF j = 0 THEN 0
    ELSE (IF k + 1 - j >= 1 /\ k + 1 - j <= Len(b) THEN a[j] * b[k + 1 - j] ELSE 0)
         + ConvTerm(a, b, k, j - 1)

BigMul(a, b) ==
    Trim(Carry([k \in 1..(Len(a) + Len(b) - 1) |-> ConvTerm(a, b, k, Len(a))], 0))

RECURSIVE LessFrom(_, _, _)
LessFrom(a, b, k) ==
    IF k = 0 THEN FALSE
    ELSE IF a[k] # b[k] THEN a[k] < b[k]
    ELSE LessFrom(a, b, k - 1)

BigLess(a, b) ==
    LET ta == Trim(a)
        tb == Trim(b)
    IN  IF Len(ta) # Len(tb) THEN Len(ta) < Len(tb) ELSE LessFrom(ta, tb, Len(ta))

(***************************************************************************)
(* Vectors of 12 pitch-class energies; pitch class p is at index p + 1.    *)
(***************************************************************************)
RECURSIVE SumTo(_, _)
SumTo(v, n) == IF n = 0 THEN 0 ELSE v[n] + SumTo(v, n - 1)

Sum(v) == SumTo(v, Len(v))

Dot(v, w) == Sum([k \in 1..Len(v) |-> v[k] * w[k]])

\* A cyclic shift to the right by s places: Shift(v, s)[j] = v[(j - s) mod n]
Shift(v, s) == [k \in 1..Len(v) |-> v[((k - 1 - s + Len(v)) % Len(v)) + 1]]

\* np.roll(v, s), line 46
RollBack(v, s) == [k \in 1..Len(v) |-> v[((k - 1 + s) % Len(v)) + 1]]
RollNone(v, s) == v
Roll(v, s) == [k \in 1..Len(v) |-> v[((k - 1 - s + Len(v)) % Len(v)) + 1]]

\* v / np.sum(v): a zero sum gives 0/0, not-a-number, in every component
Normalize(v) ==
    IF Sum(v) = 0 THEN [nan |-> TRUE, num |-> v, den |-> 0]
    ELSE [nan |-> FALSE, num |-> v, den |-> Sum(v)]

(***************************************************************************)
(* Correlations.  A value is not-a-number, or n / sqrt(d) with d > 0.      *)
(***************************************************************************)
NaN == [nan |-> TRUE, n |-> 0, d |-> <<0>>]
MinusOne == [nan |-> FALSE, n |-> -1, d |-> <<1>>]
One == [nan |-> FALSE, n |-> 1, d |-> <<1>>]

\* n*Sum(v^2) - Sum(v)^2: n^2 times the variance of the numerators
Spread(v) == Len(v) * Dot(v, v) - Sum(v) * Sum(v)

\* np.corrcoef(x, y)[0, 1] of x = a/S and y = b/T.  Pearson's r is
\* (n*Sum(ab) - Sum(a)Sum(b)) / sqrt(Spread(a) * Spread(b)): the factor 1/(S*T)
\* is common to the covariance and to the two standard deviations.  A vector
\* of zero variance gives 0/0.
Correlation(x, y) ==
    IF x.nan \/ y.nan THEN NaN
    ELSE IF Spread(x.num) = 0 \/ Spread(y.num) = 0 THEN NaN
    ELSE [nan |-> FALSE,
          n   |-> Len(x.num) * Dot(x.num, y.num) - Sum(x.num) * Sum(y.num),
          d   |-> BigMul(BigOfNat(Spread(x.num)), BigOfNat(Spread(y.num)))]

\* |a|^2 * d_b, so that |a| < |b| iff Weight(a, b) < Weight(b, a)
Weight(a, b) == BigMul(BigMul(BigOfNat(Abs(a.n)), BigOfNat(Abs(a.n))), b.d)

CorrEq(a, b) ==
    /\ ~a.nan /\ ~b.nan
    /\ (a.n >= 0) = (b.n >= 0)
    /\ Trim(Weight(a, b)) = Trim(Weight(b, a))

\* The order of the reals on two defined values
Exceeds(a, b) ==
    \/ a.n >= 0 /\ b.n < 0
    \/ a.n >= 0 /\ b.n >= 0 /\ BigLess(Weight(b, a), Weight(a, b))
    \/ a.n < 0 /\ b.n < 0 /\ BigLess(Weight(a, b), Weight(b, a))

\* a > b on floats, line 51: False whenever either side is not-a-number
GreaterOrEqual(a, b) ==
    /\ ~a.nan /\ ~b.nan
    /\ \/ a.n >= 0 /\ b.n < 0
       \/ a.n >= 0 /\ b.n >= 0 /\ ~BigLess(Weight(a, b), Weight(b, a))
       \/ a.n < 0 /\ b.n < 0 /\ ~BigLess(Weight(b, a), Weight(a, b))
GreaterOrNaN(a, b) ==
    \/ a.nan
    \/ b.nan
    \/ a.n >= 0 /\ b.n < 0
    \/ a.n >= 0 /\ b.n >= 0 /\ BigLess(Weight(b, a), Weight(a, b))
    \/ a.n < 0 /\ b.n < 0 /\ BigLess(Weight(a, b), Weight(b, a))
Greater(a, b) ==
    /\ ~a.nan /\ ~b.nan
    /\ \/ a.n >= 0 /\ b.n < 0
       \/ a.n >= 0 /\ b.n >= 0 /\ BigLess(Weight(b, a), Weight(a, b))
       \/ a.n < 0 /\ b.n < 0 /\ BigLess(Weight(a, b), Weight(b, a))

(***************************************************************************)
(* The module globals as the program starts.                               *)
(***************************************************************************)
KeyNames == <<"C", "C#", "D", "D#", "E", "F", "F#", "G", "G#", "A", "A#", "B">>
ToneProfiles ==
    [major |-> <<635, 223, 348, 233, 438, 409, 252, 519, 239, 366, 229, 288>>,
     minor |-> <<633, 268, 352, 538, 260, 353, 254, 475, 398, 269, 334, 317>>]
Modes == <<"major", "minor">>

(***************************************************************************)
(* detect_key, lines 36-62.                                                *)
(***************************************************************************)
\* lines 41-42: profile = np.array(KEY_PROFILES[mode]); profile / np.sum(profile)
Profile(profiles, m) == Normalize(profiles[m])

\* line 46: np.roll of the normalised profile
RotatedProfile(profiles, m, r) ==
    [Profile(profiles, m) EXCEPT !.num = Roll(@, r)]

\* lines 46-54: the body of the inner loop on the locals st
LoopBody(st, keys, profiles, m, r, x) ==
    LET correlation == Correlation(x, RotatedProfile(profiles, m, r))
    IN  IF Greater(correlation, st.max_correlation)
        THEN [max_correlation |-> correlation,
              detected_key    |-> keys[r + 1],
              detected_mode   |-> m]
        ELSE st

\* lines 36-38
StaleLocals ==
    [max_correlation |-> max_correlation, detected_key |-> None, detected_mode |-> None]
InitialLocals ==
    [max_correlation |-> MinusOne, detected_key |-> None, detected_mode |-> None]

\* lines 57-60
FormatKey(key, m) == IF m = "minor" THEN key \o "m" ELSE key

Locals == [max_correlation |-> max_correlation,
           detected_key    |-> detected_key,
           detected_mode   |-> detected_mode]

(***************************************************************************)
(* The pitch-class vectors given to the scoring loop: every rotation of    *)
(* the two tone profiles, stacked-interval chords on C (a tritone, an      *)
(* augmented triad and a diminished seventh divide the octave evenly),     *)
(* flat energy and silence.                                                *)
(***************************************************************************)
Pitches == 1..NPitch

TonalInputs == {Shift(ToneProfiles[m], r) : m \in {"major", "minor"}, r \in 0..(NPitch - 1)}

Chord(d, k, w) ==
    [p \in Pitches |->
        IF p = 1 THEN w
        ELSE IF \E t \in 1..(k - 1) : (t * d) % NPitch = p - 1 THEN 1 ELSE 0]

ChordInputs == {Chord(d, k, w) : d \in 1..6, k \in 1..MaxNotes, w \in 1..MaxEnergy}

FlatInputs == {[p \in Pitches |-> e] : e \in 0..MaxEnergy}

Inputs == TonalInputs \cup ChordInputs \cup FlatInputs

\* Once a call is remembered, the calls that follow it are on the remembered
\* vector, on its two cyclic shifts, and on these other vectors.
Between == FlatInputs \cup {ToneProfiles["major"], ToneProfiles["minor"]}

Following(x) == {x, Shift(x, 1), Shift(x, NPitch - 1)} \cup Between

NoMemo == [input |-> <<>>, key |-> None, mode |-> None, corr |-> MinusOne, name |-> None]

(***************************************************************************)
(* detect_key as a state machine: one call after another.                  *)
(***************************************************************************)
\* lines 24-38: the audio is loaded and averaged, normalised, the locals set
Call(c) ==
    /\ pc = "idle"
    /\ memo = NoMemo \/ c \in Following(memo.input)
    /\ audio' = c
    /\ chroma_vals' = Normalize(c)
    /\ max_correlation' = InitialLocals.max_correlation
    /\ detected_key' = InitialLocals.detected_key
    /\ detected_mode' = InitialLocals.detected_mode
    /\ mode' = "major"
    /\ i' = 0
    /\ key_name' = None
    /\ pc' = "loop"
    /\ UNCHANGED <<KEYS, KEY_PROFILES, memo>>
    /\ UNCHANGED renameVars

\* lines 40-54: one iteration of the inner loop, then the loops' advance
LoopStep ==
    /\ pc = "loop"
    /\ LET st == LoopBody(Locals, KEYS, KEY_PROFILES, mode, i, chroma_vals)
       IN  /\ max_correlation' = st.max_correlation
           /\ detected_key' = st.detected_key
           /\ detected_mode' = st.detected_mode
    /\ IF i < NPitch - 1
       THEN i' = i + 1 /\ mode' = mode /\ pc' = "loop"
       ELSE IF mode = "major"
            THEN i' = 0 /\ mode' = "minor" /\ pc' = "loop"
            ELSE i' = i /\ mode' = mode /\ pc' = "format"
    /\ UNCHANGED <<KEYS, KEY_PROFILES, audio, chroma_vals, key_name, memo>>
    /\ UNCHANGED renameVars

\* lines 56-62
Format ==
    /\ pc = "format"
    /\ key_name' = FormatKey(detected_key, detected_mode)
    /\ pc' = "returned"
    /\ UNCHANGED <<KEYS, KEY_PROFILES, audio, chroma_vals, mode, i,
                   max_correlation, detected_key, detected_mode, memo>>
    /\ UNCHANGED renameVars

\* the caller takes the label; the observer remembers this call or does not
Return ==
    /\ pc = "returned"
    /\ pc' = "idle"
    /\ UNCHANGED <<KEYS, KEY_PROFILES, audio, chroma_vals, mode, i,
                   max_correlation, detected_key, detected_mode, key_name, memo>>
    /\ UNCHANGED renameVars

ReturnRemembered ==
    /\ pc = "returned"
    /\ pc' = "idle"
    /\ memo' = [input |-> audio, key |-> detected_key, mode |-> detected_mode,
                corr |-> max_correlation, name |-> key_name]
    /\ UNCHANGED <<KEYS, KEY_PROFILES, audio, chroma_vals, mode, i,
                   max_correlation, detected_key, detected_mode, key_name>>
    /\ UNCHANGED renameVars

\* lines 40-54 in one piece: the locals after the first k of the 24
\* iterations, in loop order.  (The locals so far are bound as a value, so
\* that TLC computes them once.)
RECURSIVE LocalsAfter(_, _, _, _)
LocalsAfter(keys, profiles, x, k) ==
    IF k = 0 THEN InitialLocals
    ELSE CHOOSE next \in {LoopBody(st, keys, profiles,
                                   Modes[((k - 1) \div NPitch) + 1], (k - 1) % NPitch, x) :
                              st \in {LocalsAfter(keys, profiles, x, k - 1)}} : TRUE

\* lines 33-62
DetectKey(keys, profiles, c) ==
    LET st == LocalsAfter(keys, profiles, Normalize(c), 2 * NPitch)
    IN  FormatKey(st.detected_key, st.detected_mode)

(***************************************************************************)
(* The directory tree.  A file is a path (parent directory, name) and its  *)
(* audio: the mean chroma librosa computes from it (lines 24-30), or audio *)
(* that librosa.load cannot decode.                                        *)
(***************************************************************************)
Path(parent, name) == [parent |-> parent, name |-> name]
NoPath == Path("", "")

\* str.rfind('.'), counted from 1; 0 when the name holds no dot
RECURSIVE LastDot(_, _)
LastDot(name, k) ==
    IF k = 0 THEN 0
    ELSE IF SubSeq(name, k, k) = "." THEN k
    ELSE LastDot(name, k - 1)

\* PurePath.suffix and PurePath.stem, lines 85-86: the name is cut at its
\* last dot unless that dot opens or closes the name
HasSuffix(name) ==
    LastDot(name, Len(name)) > 1 /\ LastDot(name, Len(name)) < Len(name)
SuffixOf(name) ==
    IF HasSuffix(name) THEN SubSeq(name, LastDot(name, Len(name)), Len(name)) ELSE ""
StemOf(name) ==
    IF HasSuffix(name) THEN SubSeq(name, 1, LastDot(name, Len(name)) - 1) ELSE name

Corrupt == [ok |-> FALSE, chroma |-> <<>>]
Audio(c) == [ok |-> TRUE, chroma |-> c]

Silence == [p \in Pitches |-> 0]
Hum == [p \in Pitches |-> 1]

AudioChoices ==
    {Corrupt, Audio(Silence), Audio(Hum),
     Audio(ToneProfiles["major"]), Audio(ToneProfiles["minor"])}

InitialPaths ==
    {Path(".", "a.wav"), Path(".", "a_C.wav"), Path(".", "a_Cm.wav"), Path("sub", "a.WAV")}

InitialTrees ==
    UNION {[S -> AudioChoices] : S \in {T \in SUBSET InitialPaths : Cardinality(T) <= MaxFiles}}

EmptyTree == [p \in {} |-> Corrupt]
NoEvent == [path |-> NoPath, key |-> None, outcome |-> "none", target |-> NoPath]

\* detect_key on the audio of the tree, scored once per vector while the
\* module globals are as the program set them
KeyTable ==
    [a \in {b \in AudioChoices : b.ok} |-> DetectKey(KeyNames, ToneProfiles, a.chroma)]

KeyOfAudio(keys, profiles, a) ==
    IF keys = KeyNames /\ profiles = ToneProfiles /\ a \in DOMAIN KeyTable
    THEN KeyTable[a]
    ELSE DetectKey(keys, profiles, a.chroma)

\* line 89: key in stem, the substring test of str
NeverInStem(key, stem) == FALSE
KeyInStem(key, stem) ==
    \E k \in 1..(Len(stem) - Len(key) + 1) : SubSeq(stem, k, k + Len(key) - 1) = key

\* line 90
NameAfterSuffix(stem, key, suffix) == stem \o suffix \o "_" \o key
NewName(stem, key, suffix) == stem \o "_" \o key \o suffix

\* Path.rename on POSIX, line 94: the target, if a file is there, is replaced
\* silently
Rename(tree, old, new) ==
    [p \in (DOMAIN tree \ {old}) \cup {new} |-> IF p = new THEN tree[old] ELSE tree[p]]

\* directory.rglob(pattern), line 68, for the patterns '*.wav' and '*.WAV'
\* (matched case-sensitively), each in the order the directory scan gives
EndsWith(name, tail) ==
    Len(name) >= Len(tail) /\ SubSeq(name, Len(name) - Len(tail) + 1, Len(name)) = tail

Matching(tree, tail) == {p \in DOMAIN tree : EndsWith(p.name, tail)}

Orderings(S) ==
    {s \in [1..Cardinality(S) -> S] : \A j, k \in 1..Cardinality(S) : s[j] = s[k] => j = k}

Listings(tree) ==
    {lower \o upper : lower \in Orderings(Matching(tree, ".wav")),
                      upper \in Orderings(Matching(tree, ".WAV"))}

\* lines 77-100: the try block on one file and its except clause.  os_ok is
\* whether the operating system carries out a rename that is asked of it.
Iteration(tree, keys, profiles, wav_file, os_ok) ==
    LET failed(key) == [fs |-> tree,
                        event |-> [path |-> wav_file, key |-> key,
                                   outcome |-> "error", target |-> NoPath]]
    IN  IF wav_file \notin DOMAIN tree \/ ~tree[wav_file].ok
        THEN failed(None)                       \* librosa.load raises
        ELSE LET key == KeyOfAudio(keys, profiles, tree[wav_file])
                 stem == StemOf(wav_file.name)
                 suffix == SuffixOf(wav_file.name)
             IN  IF key = None
                 THEN failed(None)              \* None in stem raises TypeError
                 ELSE IF ~KeyInStem(key, stem)
                 THEN LET new_name == NewName(stem, key, suffix)
                          new_path == Path(wav_file.parent, new_name)
                      IN  IF os_ok
                          THEN [fs |-> Rename(tree, wav_file, new_path),
                                event |-> [path |-> wav_file, key |-> key,
                                           outcome |-> "renamed", target |-> new_path]]
                          ELSE failed(key)      \* Path.rename raises OSError
                 ELSE [fs |-> tree,
                       event |-> [path |-> wav_file, key |-> key,
                                  outcome |-> "skipped", target |-> NoPath]]

(***************************************************************************)
(* rename_files_with_keys as a state machine: the script is run on the     *)
(* tree, and run again.                                                    *)
(***************************************************************************)
\* lines 67-74: the list is made up front; an empty list ends the run
Enumerate ==
    /\ rpc = "start"
    /\ \E listing \in Listings(fs) :
          /\ wav_files' = listing
          /\ rpc' = IF listing = <<>> THEN "done" ELSE "loop"
    /\ idx' = 1
    /\ last' = NoEvent
    /\ UNCHANGED <<KEYS, KEY_PROFILES, fs, run, fs0, renamed>>
    /\ UNCHANGED keyVars

\* lines 76 and 99-100: the except clause ends the iteration, not the loop;
\* after iteration k of n the loop goes on, or the list is exhausted
AbortOnError(event, k, n) == IF event.outcome = "error" \/ k = n THEN "done" ELSE "loop"
AfterIteration(event, k, n) == IF k = n THEN "done" ELSE "loop"

\* lines 76-100: one iteration of the for loop
ProcessFile ==
    /\ rpc = "loop"
    /\ \E os_ok \in BOOLEAN :
          LET step == Iteration(fs, KEYS, KEY_PROFILES, wav_files[idx], os_ok)
          IN  /\ fs' = step.fs
              /\ last' = step.event
              /\ renamed' = IF run = 1 /\ step.event.outcome = "renamed"
                            THEN renamed \cup {[path |-> step.event.target,
                                                audio |-> fs[wav_files[idx]]]}
                            ELSE renamed
              /\ rpc' = AfterIteration(step.event, idx, Len(wav_files))
    /\ idx' = idx + 1
    /\ UNCHANGED <<KEYS, KEY_PROFILES, wav_files, run, fs0>>
    /\ UNCHANGED keyVars

\* the script is started again on the tree the last run left
RunAgain ==
    /\ rpc = "done"
    /\ run < MaxRuns
    /\ run' = run + 1
    /\ rpc' = "start"
    /\ UNCHANGED <<KEYS, KEY_PROFILES, fs, wav_files, idx, last, fs0, renamed>>
    /\ UNCHANGED keyVars

InitRename ==
    /\ rpc = "start"
    /\ fs \in InitialTrees
    /\ fs0 = fs
    /\ wav_files = <<>>
    /\ idx = 1
    /\ run = 1
    /\ last = NoEvent
    /\ renamed = {}

InitGlobals ==
    /\ KEYS = KeyNames
    /\ KEY_PROFILES = ToneProfiles

InitKey ==
    /\ pc = "idle"
    /\ audio = <<>>
    /\ chroma_vals = Normalize(<<>>)
    /\ mode = "major"
    /\ i = 0
    /\ max_correlation = MinusOne
    /\ detected_key = None
    /\ detected_mode = None
    /\ key_name = None
    /\ memo = NoMemo

RenameIdle ==
    /\ rpc = "done"
    /\ fs = EmptyTree
    /\ fs0 = EmptyTree
    /\ wav_files = <<>>
    /\ idx = 1
    /\ run = MaxRuns
    /\ last = NoEvent
    /\ renamed = {}

Init == InitGlobals /\ InitKey /\ RenameIdle

Next ==
    \/ \E c \in Inputs : Call(c)
    \/ LoopStep
    \/ Format
    \/ Return
    \/ ReturnRemembered

Spec == Init /\ [][Next]_vars

InitBatch == InitGlobals /\ InitKey /\ InitRename

NextBatch ==
    \/ Enumerate
    \/ ProcessFile
    \/ RunAgain

SpecRename == InitBatch /\ [][NextBatch]_vars

\* the for loop of line 76 is not held up: an iteration that can run does
FairSpecRename == SpecRename /\ WF_vars(Enumerate) /\ WF_vars(ProcessFile)

(***************************************************************************)
(* Properties of detect_key.                                               *)
(***************************************************************************)
ModeSet == {"major", "minor"}
Tonics == 0..(NPitch - 1)

TonicIndex(key) == CHOOSE r \in Tonics : KeyNames[r + 1] = key

\* the score of candidate (m, r) against the vector being scored
Score(m, r) == Correlation(chroma_vals, RotatedProfile(ToneProfiles, m, r))

\* the place of candidate (m, r) in the iteration order
Place(m, r) == (IF m = "major" THEN 0 ELSE NPitch) + r

Degenerate(c) == Sum(c) = 0 \/ Spread(c) = 0

\* C1: scoring the normalised profile of mode m rotated right by r selects
\* tonic KEYS[r] and mode m with correlation 1; the minor profile rotated by
\* 4 gives tonic "E", mode minor, label "Em".
C1_RotatedProfileSelectsItsKey ==
    \A m \in ModeSet, r \in Tonics :
        (pc = "returned" /\ audio = Shift(ToneProfiles[m], r)) =>
            /\ detected_key = KeyNames[r + 1]
            /\ detected_mode = m
            /\ CorrEq(max_correlation, One)
            /\ (m = "minor" /\ r = 4) =>
                   (detected_key = "E" /\ detected_mode = "minor" /\ key_name = "Em")

C1_Witness ==
    /\ pc = "returned"
    /\ audio = Shift(ToneProfiles["minor"], 4)
    /\ key_name = "Em"

\* C2: on a vector whose correlations are defined, the selected (mode, tonic)
\* attains the maximum correlation of the 24 candidates and is the first of
\* the candidates attaining it in iteration order (major before minor, tonic
\* ascending).
C2_FirstMaximumSelected ==
    (pc = "returned" /\ ~Degenerate(audio)) =>
        /\ detected_mode \in ModeSet
        /\ \E r \in Tonics :
              /\ detected_key = KeyNames[r + 1]
              /\ max_correlation = Score(detected_mode, r)
              /\ \A m \in ModeSet, q \in Tonics :
                    /\ ~Exceeds(Score(m, q), max_correlation)
                    /\ Place(m, q) < Place(detected_mode, r)
                          => Exceeds(max_correlation, Score(m, q))

\* a tie for the maximum between the selected candidate and a later one
C2_Witness ==
    /\ pc = "returned"
    /\ ~Degenerate(audio)
    /\ detected_mode \in ModeSet
    /\ \E m \in ModeSet, q \in Tonics :
          /\ Place(m, q) > Place(detected_mode, TonicIndex(detected_key))
          /\ CorrEq(Score(m, q), max_correlation)

\* C3: when the vector scored is a rotation of a tone profile, scoring it
\* shifted by one place moves the detected tonic by one place the same way
\* (modulo 12) and leaves the mode and the winning correlation as they were.
C3_ShiftMovesTonic ==
    (pc = "returned" /\ memo # NoMemo /\ memo.input \in TonalInputs) =>
        /\ audio = Shift(memo.input, 1) =>
              /\ detected_key = KeyNames[((TonicIndex(memo.key) + 1) % NPitch) + 1]
              /\ detected_mode = memo.mode
              /\ CorrEq(max_correlation, memo.corr)
        /\ audio = Shift(memo.input, NPitch - 1) =>
              /\ detected_key = KeyNames[((TonicIndex(memo.key) + NPitch - 1) % NPitch) + 1]
              /\ detected_mode = memo.mode
              /\ CorrEq(max_correlation, memo.corr)

\* B wraps to C
C3_Witness ==
    /\ pc = "returned"
    /\ memo.input \in TonalInputs
    /\ audio = Shift(memo.input, 1)
    /\ memo.key = "B"
    /\ detected_key = "C"

Labels == {KeyNames[r + 1] : r \in Tonics} \cup {KeyNames[r + 1] \o "m" : r \in Tonics}

\* C4: the value detect_key returns is one of the 24 key labels: the tonic
\* name for a major key, the tonic name followed by "m" for a minor key.
C4_ReturnsKeyLabel ==
    pc = "returned" =>
        /\ key_name \in Labels
        /\ \E r \in Tonics : detected_key = KeyNames[r + 1]
        /\ detected_mode = "major" => key_name = detected_key
        /\ detected_mode = "minor" => key_name = detected_key \o "m"

\* C8: a call on a vector scored before selects what the earlier call
\* selected, whatever was scored in between, and no call changes KEYS or
\* KEY_PROFILES.
C8_DeterministicAndStateless ==
    /\ KEYS = KeyNames
    /\ KEY_PROFILES = ToneProfiles
    /\ (pc = "returned" /\ memo # NoMemo /\ audio = memo.input) =>
          /\ detected_key = memo.key
          /\ detected_mode = memo.mode
          /\ max_correlation = memo.corr
          /\ key_name = memo.name

C8_Witness ==
    /\ pc = "returned"
    /\ memo # NoMemo
    /\ audio = memo.input
    /\ detected_key # None

(***************************************************************************)
(* Properties of rename_files_with_keys.                                   *)
(***************************************************************************)
\* a step of the for loop: the file it is on
Iterating == rpc = "loop" /\ idx' = idx + 1
Current == wav_files[idx]

\* C5: once the first run has renamed a file to <stem>_<key><ext>, the file
\* keeps exactly that name, with its audio, through every later run.
C5_SecondRunKeepsNames ==
    run >= 2 => \A r \in renamed : r.path \in DOMAIN fs /\ fs[r.path] = r.audio

\* the second run has met a file the first run renamed, and skipped it
C5_Witness ==
    /\ run = 2
    /\ last.outcome = "skipped"
    /\ \E r \in renamed : r.path = last.path

\* C6: an iteration that ends in the except clause leaves the tree as it
\* was, prints its message and goes on to the next file of the list; a run
\* ends only with the whole list processed, and every run does end.
C6_ErrorDoesNotAbortBatch ==
    /\ [][(Iterating /\ last'.outcome = "error") =>
             /\ fs' = fs
             /\ last'.path = Current
             /\ idx < Len(wav_files) => rpc' = "loop"]_vars
    /\ [](rpc = "done" => idx = Len(wav_files) + 1)
    /\ [](rpc = "loop" => <>(rpc = "done"))

\* an error on a file that is not the last, and the run ended all the same
C6_Witness ==
    /\ rpc = "done"
    /\ Len(wav_files) >= 2
    /\ idx = Len(wav_files) + 1
    /\ last.outcome # "error"
    /\ \E p \in DOMAIN fs : p \in DOMAIN fs0 /\ ~fs[p].ok /\ p = wav_files[1]

\* C7: for a file whose key is detected, a key already in the stem leaves
\* the name as it is; otherwise the rename asked for is to
\* stem + "_" + key + extension in the same directory, and unless the
\* operating system refuses it the file is then under that name.
C7_RenameAppendsKey ==
    [][(Iterating /\ last'.key # None) =>
         LET stem == StemOf(Current.name)
             ext == SuffixOf(Current.name)
             key == last'.key
             new == Path(Current.parent, stem \o "_" \o key \o ext)
         IN  IF \E k \in 1..(Len(stem) - Len(key) + 1) :
                    SubSeq(stem, k, k + Len(key) - 1) = key
             THEN fs' = fs /\ last'.outcome = "skipped"
             ELSE \/ /\ last'.outcome = "renamed"
                     /\ last'.target = new
                     /\ Current \notin DOMAIN fs'
                     /\ new \in DOMAIN fs'
                     /\ fs'[new] = fs[Current]
                     /\ SuffixOf(new.name) = ext
                     /\ StemOf(new.name) = stem \o "_" \o key
                  \/ /\ last'.outcome = "error"
                     /\ fs' = fs]_vars

\* a file of the subdirectory renamed in place, its suffix in capitals
C7_Witness ==
    /\ last.outcome = "renamed"
    /\ last.path = Path("sub", "a.WAV")
    /\ last.target = Path("sub", "a_Cm.WAV")
    /\ Path("sub", "a_Cm.WAV") \in DOMAIN fs

\* C9: on audio whose correlations are all not-a-number no candidate passes
\* the test against -1, detect_key returns None without raising, and the
\* iteration ends in the except clause with the file under its old name.
C9_DegenerateInputReturnsNone ==
    [][(Iterating /\ Current \in DOMAIN fs /\ fs[Current].ok
            /\ Degenerate(fs[Current].chroma)) =>
         /\ \A m \in ModeSet, r \in Tonics :
               Correlation(Normalize(fs[Current].chroma),
                           RotatedProfile(ToneProfiles, m, r)).nan
         /\ KeyOfAudio(KEYS, KEY_PROFILES, fs[Current]) = None
         /\ last'.outcome = "error"
         /\ last'.key = None
         /\ fs' = fs]_vars

\* a file of flat, non-zero energy has been met and is still in place
C9_Witness ==
    /\ last.outcome = "error"
    /\ last.path \in DOMAIN fs
    /\ fs[last.path].ok
    /\ Sum(fs[last.path].chroma) > 0
    /\ Spread(fs[last.path].chroma) = 0

\* C10: a run destroys no file: the tree holds as many files as before the
\* first run.
C10_NoFileDestroyed ==
    Cardinality(DOMAIN fs) = Cardinality(DOMAIN fs0)

====
